---- MODULE Spec2Model ----
(***************************************************************************)
(* cleanmymac-cli (index.js): recursive size aggregation, the threshold    *)
(* scanner, the cache locator and the selection / deletion workflow.       *)
(*                                                                         *)
(* A path is a sequence of names.  The filesystem is a function from a     *)
(* finite universe of paths to nodes.  A node is                           *)
(*   absent  : no such entry (stat fails, not listed by its parent)        *)
(*   file    : a regular file of `size` bytes                              *)
(*   dir     : a readable directory                                        *)
(*   broken  : listed by its parent, but stat fails (dangling symlink)     *)
(*   locked  : a directory that stats, but whose readdir fails (EACCES)    *)
(***************************************************************************)
EXTENDS Integers, Sequences, FiniteSets, TLC

\* ------------------------------------------------------------------ bounds
MaxSize == 1
MaxThreshold == 2
MaxLimit == 2
MaxNodes == 7

\* ------------------------------------------------------- program constants
SCAN_CACHE == "Scan for cache files"
SCAN_LARGE_FILES == "Scan for large files (>1GB)"
EXIT == "Exit"

\* Sizes are counted in units of 512 MiB, so that 1 GiB is 2.
GB == 2

\* the default of findLargeFiles' listLimit
DefaultListLimit == 1000

HOME == <<"home">>

cacheDirs ==
    << <<"~", "Caches">>,
       <<"~", "Logs">>,
       <<"~", "AppSup", "*", "Caches">>,
       <<"Caches">> >>

DefaultDirectory == <<"~", "Documents">>

\* ------------------------------------------------------- the path universe
Docs == HOME \o <<"Documents">>
UCaches == HOME \o <<"Caches">>
ULogs == HOME \o <<"Logs">>
AppSup == HOME \o <<"AppSup">>
SCaches == <<"Caches">>

\* Parents come before their children.
LargeOrder ==
    << Docs,
       Docs \o <<"a">>, Docs \o <<"b">>,
       Docs \o <<"a", "x">>, Docs \o <<"a", "y">>, Docs \o <<"b", "z">>,
       Docs \o <<"a", "x", "p">> >>

CacheOrder ==
    << UCaches, UCaches \o <<"a">>, UCaches \o <<"b">>, UCaches \o <<"a", "n">>,
       ULogs,
       AppSup, AppSup \o <<"p">>, AppSup \o <<"q">>,
       AppSup \o <<"p", "Caches">>, AppSup \o <<"q", "Caches">>,
       AppSup \o <<"p", "Caches", "f">>, AppSup \o <<"q", "Caches", "g">>,
       SCaches, SCaches \o <<"s">> >>

Range(s) == {s[i] : i \in 1..Len(s)}

U == Range(LargeOrder) \cup Range(CacheOrder)

Absent == [kind |-> "absent", size |-> 0]
File(n) == [kind |-> "file", size |-> n]
Dir == [kind |-> "dir", size |-> 0]
Broken == [kind |-> "broken", size |-> 0]
Locked == [kind |-> "locked", size |-> 0]

Files == {File(n) : n \in 1..MaxSize}

\* The kinds each path of the universe may take in an initial filesystem.
NodeOptions(p) ==
    CASE p = Docs -> {Absent, Locked, Dir}
      [] p = Docs \o <<"a">> -> {Absent, Broken, Locked, Dir} \cup Files
      [] p = Docs \o <<"b">> -> {Absent, Broken, Dir} \cup Files
      [] p = Docs \o <<"a", "x">> -> {Absent, Broken, Locked, Dir} \cup Files
      [] p = Docs \o <<"a", "y">> -> {Absent, Broken} \cup Files
      [] p = Docs \o <<"b", "z">> -> {Absent} \cup Files
      [] p = Docs \o <<"a", "x", "p">> -> {Absent} \cup Files
      [] p = UCaches -> {Absent, Locked, Dir}
      [] p = UCaches \o <<"a">> -> {Absent, Broken, Dir} \cup Files
      [] p = UCaches \o <<"b">> -> {Absent, Broken} \cup Files
      [] p = UCaches \o <<"a", "n">> -> {Absent} \cup Files
      [] p = ULogs -> {Absent}
      [] p = AppSup -> {Absent, Locked, Dir}
      [] p \in {AppSup \o <<"p">>, AppSup \o <<"q">>} -> {Absent, Dir}
      [] p \in {AppSup \o <<"p", "Caches">>, AppSup \o <<"q", "Caches">>} ->
            {Absent, Locked, Dir}
      [] p \in {AppSup \o <<"p", "Caches", "f">>, AppSup \o <<"q", "Caches", "g">>} ->
            {Broken} \cup Files
      [] p = SCaches -> {Absent, Dir}
      [] p = SCaches \o <<"s">> -> Files
      [] OTHER -> {Absent}

Parent(p) == SubSeq(p, 1, Len(p) - 1)

EmptyFS == [p \in U |-> Absent]

\* An entry exists only inside a directory of the universe: `holders` are the
\* kinds of directory that may hold entries.
OptionsIn(g, p, holders) ==
    IF Parent(p) \in U /\ g[Parent(p)].kind \notin holders THEN {Absent} ELSE NodeOptions(p)

RECURSIVE Populate(_, _, _, _)
Populate(base, order, i, holders) ==
    IF i = 0 THEN {base}
    ELSE UNION { { [g EXCEPT ![order[i]] = o] : o \in OptionsIn(g, order[i], holders) } :
                 g \in Populate(base, order, i - 1, holders) }

\* What a scan sees of a locked directory does not depend on what is inside it.
LargeFS == Populate(EmptyFS, LargeOrder, Len(LargeOrder), {"dir"})
CacheFS == Populate(EmptyFS, CacheOrder, Len(CacheOrder), {"dir"})

\* The whole program is run on the filesystems of at most MaxNodes entries.
MainFS == {f \in LargeFS \cup CacheFS : Cardinality({p \in U : f[p].kind # "absent"}) <= MaxNodes}

\* For the size aggregator alone, locked directories hold entries too.
SizeFS == Populate(EmptyFS, LargeOrder, Len(LargeOrder), {"dir", "locked"})

\* ------------------------------------------------------------------- state
VARIABLES
    fs,             \* the filesystem
    sizeThreshold,  \* parameter of the running scan
    listLimit,      \* parameter of findLargeFiles
    action,         \* the menu choice
    pc,             \* position of the program
    stack,          \* scanDir activations: [dir, files (entries not yet visited)]
    results,        \* results / cacheFiles: sequence of [path, size, isDirectory]
    spinner,        \* spinner.succeed / spinner.fail calls of the running scan
    visited,        \* entries the scan's loops have visited, in order
    recursed,       \* directories scanDir was called on from line 80
    walk,           \* scanCacheFiles' loops: [dirIdx, pos, items, files, cur]
    prev,           \* the previous run of the same scan: [ran, set (its result)]
    selectedFiles,  \* the paths the operator ticked, in the order of the choices
    confirm,        \* the operator's answer to the confirmation prompt
    todo,           \* deleteFiles: the selected paths not yet attempted
    deletedCount,
    errorCount,
    attempts,       \* deleteFiles: the paths its loop has taken up, in order
    mutations,      \* the paths the program has called rm / unlink on
    console,        \* console.log / console.error lines of the workflow
    removedExt,     \* selected paths another process removed before the delete step
    denied,         \* paths whose rm / unlink the filesystem rejected
    target,         \* the path getFileSizeRecursive was called on
    tasks           \* the pending getFileSizeRecursive calls: path -> [st, val, threw]

delVars == <<selectedFiles, confirm, todo, deletedCount, errorCount, attempts,
             mutations, console, removedExt, denied>>

vars == <<fs, sizeThreshold, listLimit, action, pc, stack, results, spinner,
          visited, recursed, walk, prev, selectedFiles, confirm, todo, deletedCount,
          errorCount, attempts, mutations, console, removedExt, denied, target, tasks>>

aggVars == <<target, tasks>>

\* -------------------------------------------------------- fs primitives
\* path.join
join(dir, name) == dir \o <<name>>

\* directory.replace(/^~/, process.env.HOME)
expand(p) == IF p # <<>> /\ Head(p) = "~" THEN HOME \o Tail(p) ELSE p

node(f, p) == IF p \in U THEN f[p] ELSE Absent

\* fs.promises.stat resolves
statOk(f, p) == node(f, p).kind \in {"file", "dir", "locked"}

\* stats.isDirectory()
isDirectory(f, p) == node(f, p).kind \in {"dir", "locked"}

\* fs.promises.readdir resolves
readdirOk(f, p) == node(f, p).kind = "dir"

\* the names readdir yields (in an order the filesystem chooses)
entries(f, p) ==
    {q[Len(q)] : q \in {r \in U : Len(r) = Len(p) + 1 /\ Parent(r) = p
                                  /\ f[r].kind # "absent"}}

\* every order readdir may yield the entries in
Orders(S) ==
    {s \in [1..Cardinality(S) -> S] : \A i, j \in 1..Cardinality(S) : s[i] = s[j] => i = j}

RECURSIVE SumSeq(_)
SumSeq(s) == IF s = <<>> THEN 0 ELSE Head(s) + SumSeq(Tail(s))

RECURSIVE SetToSeq(_)
SetToSeq(S) ==
    IF S = {} THEN <<>> ELSE LET x == CHOOSE y \in S : TRUE IN <<x>> \o SetToSeq(S \ {x})

\* a size that does not descend: only the files directly inside a directory
getFileSizeShallow(f, p) ==
    IF ~statOk(f, p) THEN 0
    ELSE IF isDirectory(f, p) THEN
        IF ~readdirOk(f, p) THEN 0
        ELSE LET names == SetToSeq(entries(f, p))
                 sizes == [i \in 1..Len(names) |->
                              IF node(f, join(p, names[i])).kind = "file"
                              THEN node(f, join(p, names[i])).size ELSE 0]
             IN SumSeq(sizes)
    ELSE node(f, p).size

\* getFileSizeRecursive, as one call evaluates (index.js 28-49)
RECURSIVE getFileSizeRecursive(_, _)
getFileSizeRecursive(f, p) ==
    IF ~statOk(f, p) THEN 0
    ELSE IF isDirectory(f, p) THEN
        IF ~readdirOk(f, p) THEN 0
        ELSE LET names == SetToSeq(entries(f, p))
                 sizes == [i \in 1..Len(names) |-> getFileSizeRecursive(f, join(p, names[i]))]
             IN SumSeq(sizes)
    ELSE node(f, p).size

\* ------------------------------- getFileSizeRecursive, call by call
\* Each call is a task; Promise.all (line 33) starts the calls on all the
\* entries of a directory at once and they complete in any order.
NoTask == [st |-> "none", val |-> 0, threw |-> FALSE]
Started == [st |-> "stat", val |-> 0, threw |-> FALSE]
Resolved(n) == [st |-> "done", val |-> n, threw |-> FALSE]
Rejected == [st |-> "done", val |-> 0, threw |-> TRUE]

\* a call that lets its failure escape
rethrow == Rejected

\* the catch of lines 46-48
onFailure == Resolved(0)

\* the callback of lines 34-40: what one entry adds to `sizes`
childSize(t) == IF t.threw THEN 0 ELSE t.val

\* await fs.promises.stat(filePath), lines 30-31 and 44
sizeStat(p) ==
    /\ pc = "size"
    /\ tasks[p].st = "stat"
    /\ tasks' = [tasks EXCEPT ![p] =
                    IF ~statOk(fs, p) THEN onFailure
                    ELSE IF isDirectory(fs, p) THEN [@ EXCEPT !.st = "readdir"]
                    ELSE Resolved(node(fs, p).size)]
    /\ UNCHANGED <<fs, sizeThreshold, listLimit, action, pc, stack, results, spinner,
                   visited, recursed, walk, prev, target>>
    /\ UNCHANGED delVars

\* await fs.promises.readdir(filePath) and files.map, lines 32-34
sizeReaddir(p) ==
    /\ pc = "size"
    /\ tasks[p].st = "readdir"
    /\ tasks' = IF ~readdirOk(fs, p) THEN [tasks EXCEPT ![p] = onFailure]
                ELSE [q \in U |->
                        IF q = p THEN [tasks[p] EXCEPT !.st = "wait"]
                        ELSE IF Parent(q) = p /\ q[Len(q)] \in entries(fs, p) THEN Started
                        ELSE tasks[q]]
    /\ UNCHANGED <<fs, sizeThreshold, listLimit, action, pc, stack, results, spinner,
                   visited, recursed, walk, prev, target>>
    /\ UNCHANGED delVars

\* Promise.all resolves and the sizes are added up, lines 33 and 42
sizeJoin(p) ==
    /\ pc = "size"
    /\ tasks[p].st = "wait"
    /\ \A name \in entries(fs, p) : tasks[join(p, name)].st = "done"
    /\ LET names == SetToSeq(entries(fs, p))
           sizes == [i \in 1..Len(names) |-> childSize(tasks[join(p, names[i])])]
       IN tasks' = [tasks EXCEPT ![p] = Resolved(SumSeq(sizes))]
    /\ UNCHANGED <<fs, sizeThreshold, listLimit, action, pc, stack, results, spinner,
                   visited, recursed, walk, prev, target>>
    /\ UNCHANGED delVars

\* ------------------------------------------------------- findLargeFiles
\* an exclusive comparison
meetsThresholdExclusive(size, threshold) == size > threshold

\* the comparison of lines 68, 82, 140 and 159
meetsThreshold(size, threshold) == size >= threshold

\* the check of lines 74 and 88
limitReached(res, limit) == Len(res) >= limit

\* scanDir(dir) is entered: readdir, or the catch of line 97
scanDirCall(stk, dir, order) ==
    IF readdirOk(fs, dir) THEN <<[dir |-> dir, files |-> order]>> \o stk ELSE stk

\* a scanDir that descends into every directory
recurseAlways(size, threshold) == TRUE

\* the else of line 78: scanDir descends into a directory it did not report
recurseInto(size, threshold) == ~meetsThreshold(size, threshold)

findLargeFilesStart ==
    /\ pc = "call"
    /\ action = SCAN_LARGE_FILES
    /\ LET expandedDir == expand(DefaultDirectory) IN
       \E order \in Orders(entries(fs, expandedDir)) :
           stack' = scanDirCall(<<>>, expandedDir, order)
    /\ results' = <<>>
    /\ spinner' = <<>>
    /\ visited' = <<>>
    /\ recursed' = {}
    /\ pc' = "large"
    /\ UNCHANGED delVars
    /\ UNCHANGED aggVars
    /\ UNCHANGED <<fs, sizeThreshold, listLimit, action, walk, prev>>

\* one iteration of the for loop of line 60, in the innermost scanDir
scanDirEntry ==
    /\ pc = "large"
    /\ stack # <<>>
    /\ Head(stack).files # <<>>
    /\ LET frame == Head(stack)
           file == Head(frame.files)
           filePath == join(frame.dir, file)
           rest == <<[frame EXCEPT !.files = Tail(frame.files)]>> \o Tail(stack)
       IN
       /\ visited' = Append(visited, filePath)
       /\ IF ~statOk(fs, filePath) THEN
              \* catch of line 93
              /\ stack' = rest
              /\ UNCHANGED <<results, spinner, recursed>>
          ELSE IF isDirectory(fs, filePath) THEN
              LET size == getFileSizeRecursive(fs, filePath)
                  report == meetsThreshold(size, sizeThreshold)
                  res == IF report
                         THEN Append(results, [path |-> filePath, size |-> size,
                                               isDirectory |-> TRUE])
                         ELSE results
              IN
              /\ results' = res
              /\ IF report /\ limitReached(res, listLimit) THEN
                     \* lines 74-77
                     /\ spinner' = Append(spinner, [kind |-> "succeed", n |-> Len(res)])
                     /\ stack' = Tail(stack)
                     /\ UNCHANGED recursed
                 ELSE IF recurseInto(size, sizeThreshold) THEN
                     \* line 80
                     /\ recursed' = recursed \cup {filePath}
                     /\ \E order \in Orders(entries(fs, filePath)) :
                            stack' = scanDirCall(rest, filePath, order)
                     /\ UNCHANGED spinner
                 ELSE
                     /\ stack' = rest
                     /\ UNCHANGED <<spinner, recursed>>
          ELSE IF meetsThreshold(node(fs, filePath).size, sizeThreshold) THEN
              LET res == Append(results, [path |-> filePath, size |-> node(fs, filePath).size,
                                          isDirectory |-> FALSE]) IN
              /\ results' = res
              /\ UNCHANGED recursed
              /\ IF limitReached(res, listLimit)
                 THEN /\ spinner' = Append(spinner, [kind |-> "succeed", n |-> Len(res)])
                      /\ stack' = Tail(stack)
                 ELSE /\ stack' = rest
                      /\ UNCHANGED spinner
          ELSE
              /\ stack' = rest
              /\ UNCHANGED <<results, spinner, recursed>>
    /\ UNCHANGED delVars
    /\ UNCHANGED aggVars
    /\ UNCHANGED <<fs, sizeThreshold, listLimit, action, pc, walk, prev>>

\* the for loop of the innermost scanDir is exhausted: scanDir returns
scanDirReturn ==
    /\ pc = "large"
    /\ stack # <<>>
    /\ Head(stack).files = <<>>
    /\ stack' = Tail(stack)
    /\ UNCHANGED delVars
    /\ UNCHANGED aggVars
    /\ UNCHANGED <<fs, sizeThreshold, listLimit, action, pc, results, spinner,
                   visited, recursed, walk, prev>>

\* lines 104-106: the outermost scanDir has returned
findLargeFilesReturn ==
    /\ pc = "large"
    /\ stack = <<>>
    /\ spinner' = Append(spinner, [kind |-> "succeed", n |-> Len(results)])
    /\ pc' = "returned"
    /\ UNCHANGED delVars
    /\ UNCHANGED aggVars
    /\ UNCHANGED <<fs, sizeThreshold, listLimit, action, stack, results,
                   visited, recursed, walk, prev>>

\* ------------------------------------------------------- scanCacheFiles
idle == [dirIdx |-> 0, pos |-> "dir", items |-> <<>>, files |-> <<>>, cur |-> <<>>]

\* expandedDir.includes('*')
isPattern(p) == \E i \in 1..Len(p) : p[i] = "*"

\* expandedDir.indexOf('*')
indexOfStar(p) == CHOOSE i \in 1..Len(p) : p[i] = "*" /\ \A j \in 1..(i - 1) : p[j] # "*"

\* lines 125-126
baseDirOf(p) == SubSeq(p, 1, indexOfStar(p) - 1)
patternOf(p) == SubSeq(p, indexOfStar(p) + 1, Len(p))

\* fs.existsSync
existsSync(f, p) == statOk(f, p)

\* the catch of line 168, then the next iteration of the loop of line 119
nextCacheDir(w) == [idle EXCEPT !.dirIdx = w.dirIdx + 1]

\* what a failing stat of a cache root's child does to the walk (lines 138, 157)
childStatFails(w) == nextCacheDir(w)

scanCacheFilesStart ==
    /\ pc = "call"
    /\ action = SCAN_CACHE
    /\ results' = <<>>
    /\ spinner' = <<>>
    /\ visited' = <<>>
    /\ walk' = [idle EXCEPT !.dirIdx = 1]
    /\ pc' = "cache"
    /\ UNCHANGED delVars
    /\ UNCHANGED aggVars
    /\ UNCHANGED <<fs, sizeThreshold, listLimit, action, stack, recursed, prev>>

\* an iteration of the loop of line 119 begins
cacheDirBegin ==
    /\ pc = "cache"
    /\ walk.pos = "dir"
    /\ walk.dirIdx <= Len(cacheDirs)
    /\ LET expandedDir == expand(cacheDirs[walk.dirIdx]) IN
       IF isPattern(expandedDir) THEN
           LET baseDir == baseDirOf(expandedDir) IN
           IF ~existsSync(fs, baseDir) \/ ~readdirOk(fs, baseDir)
           THEN walk' = nextCacheDir(walk)
           ELSE \E order \in Orders(entries(fs, baseDir)) :
                    walk' = [walk EXCEPT !.pos = "items", !.items = order]
       ELSE
           IF ~existsSync(fs, expandedDir) \/ ~readdirOk(fs, expandedDir)
           THEN walk' = nextCacheDir(walk)
           ELSE \E order \in Orders(entries(fs, expandedDir)) :
                    walk' = [walk EXCEPT !.pos = "files", !.files = order,
                                         !.cur = expandedDir]
    /\ UNCHANGED delVars
    /\ UNCHANGED aggVars
    /\ UNCHANGED <<fs, sizeThreshold, listLimit, action, pc, stack, results, spinner,
                   visited, recursed, prev>>

\* one iteration of the loop of line 132
cacheItem ==
    /\ pc = "cache"
    /\ walk.pos = "items"
    /\ walk.items # <<>>
    /\ LET expandedDir == expand(cacheDirs[walk.dirIdx])
           fullPath == join(baseDirOf(expandedDir), Head(walk.items)) \o patternOf(expandedDir)
       IN
       IF ~existsSync(fs, fullPath) THEN walk' = [walk EXCEPT !.items = Tail(walk.items)]
       ELSE IF ~readdirOk(fs, fullPath) THEN walk' = nextCacheDir(walk)
       ELSE \E order \in Orders(entries(fs, fullPath)) :
                walk' = [walk EXCEPT !.pos = "files", !.items = Tail(walk.items),
                                     !.files = order, !.cur = fullPath]
    /\ UNCHANGED delVars
    /\ UNCHANGED aggVars
    /\ UNCHANGED <<fs, sizeThreshold, listLimit, action, pc, stack, results, spinner,
                   visited, recursed, prev>>

\* one iteration of the loops of lines 136 and 155
cacheEntry ==
    /\ pc = "cache"
    /\ walk.pos = "files"
    /\ walk.files # <<>>
    /\ visited' = Append(visited, join(walk.cur, Head(walk.files)))
    /\ LET filePath == join(walk.cur, Head(walk.files)) IN
       IF ~statOk(fs, filePath) THEN
           /\ walk' = childStatFails(walk)
           /\ UNCHANGED results
       ELSE
           LET size == IF isDirectory(fs, filePath)
                       THEN getFileSizeRecursive(fs, filePath)
                       ELSE node(fs, filePath).size
           IN
           /\ walk' = [walk EXCEPT !.files = Tail(walk.files)]
           /\ results' = IF meetsThreshold(size, sizeThreshold)
                         THEN Append(results, [path |-> filePath, size |-> size,
                                               isDirectory |-> isDirectory(fs, filePath)])
                         ELSE results
    /\ UNCHANGED delVars
    /\ UNCHANGED aggVars
    /\ UNCHANGED <<fs, sizeThreshold, listLimit, action, pc, stack, spinner,
                   recursed, prev>>

\* a loop over files or items is exhausted
cacheLoopEnd ==
    /\ pc = "cache"
    /\ \/ /\ walk.pos = "files"
          /\ walk.files = <<>>
          /\ walk' = IF isPattern(cacheDirs[walk.dirIdx])
                     THEN [walk EXCEPT !.pos = "items", !.cur = <<>>]
                     ELSE nextCacheDir(walk)
       \/ /\ walk.pos = "items"
          /\ walk.items = <<>>
          /\ walk' = nextCacheDir(walk)
    /\ UNCHANGED delVars
    /\ UNCHANGED aggVars
    /\ UNCHANGED <<fs, sizeThreshold, listLimit, action, pc, stack, results, spinner,
                   visited, recursed, prev>>

\* lines 173-174
scanCacheFilesReturn ==
    /\ pc = "cache"
    /\ walk.pos = "dir"
    /\ walk.dirIdx > Len(cacheDirs)
    /\ spinner' = Append(spinner, [kind |-> "succeed", n |-> Len(results)])
    /\ walk' = idle
    /\ pc' = "returned"
    /\ UNCHANGED delVars
    /\ UNCHANGED aggVars
    /\ UNCHANGED <<fs, sizeThreshold, listLimit, action, stack, results,
                   visited, recursed, prev>>

\* ------------------------------------------------ selection and deletion
NoSelection ==
    /\ selectedFiles = <<>>
    /\ confirm = FALSE
    /\ todo = <<>>
    /\ deletedCount = 0
    /\ errorCount = 0
    /\ attempts = <<>>
    /\ mutations = <<>>
    /\ console = <<>>
    /\ removedExt = {}
    /\ denied = {}

\* files.sort((a, b) => b.size - a.size): largest first, ties in scan order
RECURSIVE insertBySize(_, _)
insertBySize(sorted, e) ==
    IF sorted = <<>> THEN <<e>>
    ELSE IF Head(sorted).size >= e.size THEN <<Head(sorted)>> \o insertBySize(Tail(sorted), e)
    ELSE <<e>> \o sorted

RECURSIVE sortBySize(_)
sortBySize(res) ==
    IF res = <<>> THEN <<>>
    ELSE insertBySize(sortBySize(SubSeq(res, 1, Len(res) - 1)), res[Len(res)])

\* the values of the ticked choices, in the order of the choices
RECURSIVE ticked(_, _, _)
ticked(files, S, i) ==
    IF i > Len(files) THEN <<>>
    ELSE (IF i \in S THEN <<files[i].path>> ELSE <<>>) \o ticked(files, S, i + 1)

\* rm(file, {recursive: true, force: true}) / unlink(file) took effect
removeTree(f, p) ==
    [q \in U |-> IF q = p \/ (Len(p) < Len(q) /\ SubSeq(q, 1, Len(p)) = p) THEN Absent ELSE f[q]]

\* a deleteFiles that goes on whatever the answer
proceedsAnyway(answer) == TRUE

\* line 239: the answer that lets deleteFiles go on to delete
proceeds(answer) == answer

\* a loop that gives up at the first failure
abortAfterFailure(rest) == <<>>

\* what is left of the loop of line 248 after the catch of line 257
afterFailure(rest) == rest

\* main, lines 271-300: the menu
mainMenu ==
    /\ pc = "menu"
    /\ \E choice \in {SCAN_CACHE, SCAN_LARGE_FILES, EXIT} :
          /\ action' = choice
          /\ pc' = IF choice = EXIT THEN "exit" ELSE "call"
          \* scanCacheFiles() and findLargeFiles(directory) run on their defaults
          /\ sizeThreshold' = IF choice = SCAN_CACHE THEN GB \div 2 ELSE GB
    /\ listLimit' = DefaultListLimit
    /\ UNCHANGED delVars
    /\ UNCHANGED aggVars
    /\ UNCHANGED <<fs, stack, results, spinner, visited, recursed, walk, prev>>

\* main, lines 302-305
mainAfterScan ==
    /\ pc = "returned"
    /\ IF Len(results) = 0
       THEN /\ console' = Append(console, "No files found matching the criteria.")
            /\ pc' = "loop"
       ELSE /\ pc' = "select"
            /\ UNCHANGED console
    /\ UNCHANGED <<selectedFiles, confirm, todo, deletedCount, errorCount, attempts,
                   mutations, removedExt, denied>>
    /\ UNCHANGED aggVars
    /\ UNCHANGED <<fs, sizeThreshold, listLimit, action, stack, results, spinner,
                   visited, recursed, walk, prev>>

\* selectFilesToDelete, lines 182-221
selectFilesToDelete ==
    /\ pc = "select"
    /\ results' = sortBySize(results)
    /\ \E S \in SUBSET (1..Len(results)) :
          selectedFiles' = ticked(sortBySize(results), S, 1)
    /\ pc' = "deleteFiles"
    /\ UNCHANGED <<confirm, todo, deletedCount, errorCount, attempts, mutations,
                   console, removedExt, denied>>
    /\ UNCHANGED aggVars
    /\ UNCHANGED <<fs, sizeThreshold, listLimit, action, stack, spinner, visited,
                   recursed, walk, prev>>

\* deleteFiles, lines 225-237: up to the confirmation prompt
deleteFilesEnter ==
    /\ pc = "deleteFiles"
    /\ IF Len(selectedFiles) = 0
       THEN /\ console' = Append(console, "No files selected for deletion.")
            /\ pc' = "loop"
       ELSE /\ pc' = "confirm"
            /\ UNCHANGED console
    /\ UNCHANGED <<selectedFiles, confirm, todo, deletedCount, errorCount, attempts,
                   mutations, removedExt, denied>>
    /\ UNCHANGED aggVars
    /\ UNCHANGED <<fs, sizeThreshold, listLimit, action, stack, results, spinner,
                   visited, recursed, walk, prev>>

\* another process removes a selected path while the prompt is open
envRemove ==
    /\ pc = "confirm"
    /\ \E p \in Range(selectedFiles) \ removedExt :
          /\ fs' = removeTree(fs, p)
          /\ removedExt' = removedExt \cup {p}
    /\ UNCHANGED <<selectedFiles, confirm, todo, deletedCount, errorCount, attempts,
                   mutations, console, denied>>
    /\ UNCHANGED aggVars
    /\ UNCHANGED <<sizeThreshold, listLimit, action, pc, stack, results, spinner,
                   visited, recursed, walk, prev>>

\* deleteFiles, lines 239-246: the operator answers
deleteFilesConfirm ==
    /\ pc = "confirm"
    /\ \E answer \in BOOLEAN :
          /\ confirm' = answer
          /\ IF proceeds(answer)
             THEN /\ pc' = "delete"
                  /\ todo' = selectedFiles
                  /\ UNCHANGED console
             ELSE /\ console' = Append(console, "Operation cancelled.")
                  /\ pc' = "loop"
                  /\ UNCHANGED todo
    /\ deletedCount' = 0
    /\ errorCount' = 0
    /\ UNCHANGED <<selectedFiles, attempts, mutations, removedExt, denied>>
    /\ UNCHANGED aggVars
    /\ UNCHANGED <<fs, sizeThreshold, listLimit, action, stack, results, spinner,
                   visited, recursed, walk, prev>>

\* deleteFiles, lines 248-261: one iteration of the loop
deleteFilesStep ==
    /\ pc = "delete"
    /\ todo # <<>>
    /\ LET file == Head(todo) IN
       /\ attempts' = Append(attempts, file)
       /\ IF ~statOk(fs, file) THEN
              \* stat rejects: the catch of line 257
              /\ errorCount' = errorCount + 1
              /\ console' = Append(console, <<"Error deleting", file>>)
              /\ todo' = afterFailure(Tail(todo))
              /\ UNCHANGED <<fs, deletedCount, mutations, denied>>
          ELSE
              /\ mutations' = Append(mutations, file)
              /\ \E ok \in (IF node(fs, file).kind = "locked" THEN {FALSE} ELSE BOOLEAN) :
                    IF ok THEN
                        /\ fs' = removeTree(fs, file)
                        /\ deletedCount' = deletedCount + 1
                        /\ todo' = Tail(todo)
                        /\ UNCHANGED <<errorCount, console, denied>>
                    ELSE
                        /\ denied' = denied \cup {file}
                        /\ errorCount' = errorCount + 1
                        /\ console' = Append(console, <<"Error deleting", file>>)
                        /\ todo' = afterFailure(Tail(todo))
                        /\ UNCHANGED <<fs, deletedCount>>
    /\ UNCHANGED <<selectedFiles, confirm, removedExt>>
    /\ UNCHANGED aggVars
    /\ UNCHANGED <<sizeThreshold, listLimit, action, pc, stack, results, spinner,
                   visited, recursed, walk, prev>>

\* deleteFiles, line 263
deleteFilesReturn ==
    /\ pc = "delete"
    /\ todo = <<>>
    /\ spinner' = Append(spinner, [kind |-> "succeed", n |-> deletedCount])
    /\ pc' = "loop"
    /\ UNCHANGED delVars
    /\ UNCHANGED aggVars
    /\ UNCHANGED <<fs, sizeThreshold, listLimit, action, stack, results,
                   visited, recursed, walk, prev>>

\* main, line 270: the next iteration of while (true)
mainLoop ==
    /\ pc = "loop"
    /\ pc' = "menu"
    /\ results' = <<>>
    /\ spinner' = <<>>
    /\ visited' = <<>>
    /\ recursed' = {}
    /\ selectedFiles' = <<>>
    /\ confirm' = FALSE
    /\ todo' = <<>>
    /\ deletedCount' = 0
    /\ errorCount' = 0
    /\ attempts' = <<>>
    /\ mutations' = <<>>
    /\ console' = <<>>
    /\ removedExt' = {}
    /\ denied' = {}
    /\ UNCHANGED aggVars
    /\ UNCHANGED <<fs, sizeThreshold, listLimit, action, stack, walk, prev>>

\* ------------------------------------------------------------ two runs
ToSet(res) == Range(res)

\* the scan has returned and is run again on the unchanged filesystem, with
\* the same parameters; readdir chooses its orders afresh
Rerun ==
    /\ pc = "returned"
    /\ prev' = [ran |-> TRUE, set |-> ToSet(results)]
    /\ pc' = "call"
    /\ UNCHANGED delVars
    /\ UNCHANGED aggVars
    /\ UNCHANGED <<fs, sizeThreshold, listLimit, action, stack, results, spinner,
                   visited, recursed, walk>>

\* findLargeFiles(directory, listLimit, sizeThreshold) and
\* scanCacheFiles(sizeThreshold) on every filesystem and parameter of the bounds
Init ==
    /\ \/ action = SCAN_LARGE_FILES /\ fs \in LargeFS /\ listLimit \in 0..MaxLimit
       \/ action = SCAN_CACHE /\ fs \in CacheFS /\ listLimit = MaxLimit
    /\ sizeThreshold \in 0..MaxThreshold
    /\ pc = "call"
    /\ stack = <<>>
    /\ results = <<>>
    /\ spinner = <<>>
    /\ visited = <<>>
    /\ recursed = {}
    /\ walk = idle
    /\ prev = [ran |-> FALSE, set |-> {}]
    /\ NoSelection
    /\ target = <<>>
    /\ tasks = [p \in U |-> NoTask]

Next ==
    \/ findLargeFilesStart
    \/ scanDirEntry
    \/ scanDirReturn
    \/ findLargeFilesReturn
    \/ scanCacheFilesStart
    \/ cacheDirBegin
    \/ cacheItem
    \/ cacheEntry
    \/ cacheLoopEnd
    \/ scanCacheFilesReturn
    \/ Rerun

Spec == Init /\ [][Next]_vars

\* the whole program: main's loop, on the default parameters
InitMain ==
    /\ fs \in MainFS
    /\ sizeThreshold = GB
    /\ listLimit = DefaultListLimit
    /\ action = EXIT
    /\ pc = "menu"
    /\ stack = <<>>
    /\ results = <<>>
    /\ spinner = <<>>
    /\ visited = <<>>
    /\ recursed = {}
    /\ walk = idle
    /\ prev = [ran |-> FALSE, set |-> {}]
    /\ NoSelection
    /\ target = <<>>
    /\ tasks = [p \in U |-> NoTask]

NextMain ==
    \/ mainMenu
    \/ findLargeFilesStart
    \/ scanDirEntry
    \/ scanDirReturn
    \/ findLargeFilesReturn
    \/ scanCacheFilesStart
    \/ cacheDirBegin
    \/ cacheItem
    \/ cacheEntry
    \/ cacheLoopEnd
    \/ scanCacheFilesReturn
    \/ mainAfterScan
    \/ selectFilesToDelete
    \/ deleteFilesEnter
    \/ envRemove
    \/ deleteFilesConfirm
    \/ deleteFilesStep
    \/ deleteFilesReturn
    \/ mainLoop

SpecMain == InitMain /\ [][NextMain]_vars

\* one call of getFileSizeRecursive, its child calls completing in any order
InitSize ==
    /\ fs \in SizeFS
    /\ target = Docs
    /\ tasks = [p \in U |-> IF p = target THEN Started ELSE NoTask]
    /\ pc = "size"
    /\ action = EXIT
    /\ sizeThreshold = GB
    /\ listLimit = DefaultListLimit
    /\ stack = <<>>
    /\ results = <<>>
    /\ spinner = <<>>
    /\ visited = <<>>
    /\ recursed = {}
    /\ walk = idle
    /\ prev = [ran |-> FALSE, set |-> {}]
    /\ NoSelection

NextSize ==
    \/ \E p \in U : sizeStat(p)
    \/ \E p \in U : sizeReaddir(p)
    \/ \E p \in U : sizeJoin(p)

SpecSize == InitSize /\ [][NextSize]_vars
\* ------------------------------------------------------------ properties
Paths(res) == {res[i].path : i \in 1..Len(res)}

IsStrictPrefix(p, q) == Len(p) < Len(q) /\ SubSeq(q, 1, Len(p)) = p

\* the size an entry is compared by: aggregate for a directory, stat size for a file
SizeOf(f, p) == IF isDirectory(f, p) THEN getFileSizeRecursive(f, p) ELSE node(f, p).size

InLargeScan == action = SCAN_LARGE_FILES /\ pc \in {"large", "returned"}
InCacheScan == action = SCAN_CACHE /\ pc \in {"cache", "returned"}

ScanRoot == expand(DefaultDirectory)

\* C2: the result of findLargeFiles never has more than listLimit entries, and
\* once the count has reached listLimit no further entry is visited: the last
\* entry visited is the one whose append reached the limit (none at all when
\* the limit is 0).
C2_CapIsHard ==
    InLargeScan =>
        /\ Len(results) <= listLimit
        /\ Len(results) >= listLimit =>
              IF results = <<>> THEN visited = <<>>
              ELSE visited # <<>> /\ visited[Len(visited)] = results[Len(results)].path

\* C3: every directory the threshold scan has visited is either reported or
\* descended into, never both and never neither, and no reported directory
\* has a result strictly below it.
C3_DescendOrReport ==
    InLargeScan =>
        /\ \A i \in 1..Len(visited) :
              isDirectory(fs, visited[i]) =>
                  ((visited[i] \in Paths(results)) # (visited[i] \in recursed))
        /\ \A i, j \in 1..Len(results) :
              results[i].isDirectory => ~IsStrictPrefix(results[i].path, results[j].path)

C3_Witness ==
    /\ InLargeScan
    /\ pc = "returned"
    /\ \E i \in 1..Len(results) :
          results[i].isDirectory /\ entries(fs, results[i].path) # {}
    /\ \E d \in recursed : entries(fs, d) # {}

C5_RootFailureReported ==
    (InLargeScan /\ pc = "returned" /\ ~readdirOk(fs, ScanRoot)) =>
        /\ results = <<>>
        /\ spinner # <<>>
        /\ \A i \in 1..Len(spinner) : spinner[i].kind = "fail"

\* the directories scanCacheFiles enumerates: the literal roots and the
\* wildcard-resolved paths
CacheRoots ==
    LET expanded == {expand(cacheDirs[i]) : i \in 1..Len(cacheDirs)} IN
    {d \in expanded : ~isPattern(d)}
    \cup UNION { {join(baseDirOf(d), item) \o patternOf(d) : item \in entries(fs, baseDirOf(d))} :
                 d \in {e \in expanded : isPattern(e) /\ readdirOk(fs, baseDirOf(e))} }

\* C6: when scanCacheFiles has returned, every child of every enumerable cache
\* root (literal or wildcard-resolved) that stats and is at least sizeThreshold
\* is in the result, whatever failed elsewhere in the walk.
C6_FailureIsolated ==
    (InCacheScan /\ pc = "returned") =>
        \A root \in CacheRoots :
            readdirOk(fs, root) =>
                \A name \in entries(fs, root) :
                    (statOk(fs, join(root, name))
                        /\ SizeOf(fs, join(root, name)) >= sizeThreshold)
                    => join(root, name) \in Paths(results)

\* C9: a second run of the same scan on the unchanged filesystem, with the
\* same parameters, returns the same set of entries as the run before it.
C9_SameResultTwice ==
    (pc = "returned" /\ prev.ran) => ToSet(results) = prev.set

\* C10: every entry findLargeFiles emits is a direct child of the expanded
\* root, and the early return on reaching listLimit fires only in the
\* outermost scanDir: after it no scanDir activation is left.
C10_OnlyTopLevelEntries ==
    InLargeScan =>
        /\ \A i \in 1..Len(results) : Parent(results[i].path) = ScanRoot
        /\ (pc = "large" /\ spinner # <<>>) => stack = <<>>

C10_Witness ==
    /\ InLargeScan
    /\ pc = "returned"
    /\ Len(spinner) = 2
    /\ \E d \in recursed : \E name \in entries(fs, d) : statOk(fs, join(d, name))
\* deleteFiles has run its loop to the end
DeleteDone == pc = "loop" /\ confirm /\ selectedFiles # <<>>

\* the selected paths that could not be deleted: gone before the delete step,
\* or rejected by the filesystem
Failing == Range(selectedFiles) \cap (removedExt \cup denied)

\* C7: after a confirmed deleteFiles run every selected path has been attempted
\* exactly once, in selection order, whatever failed before it; deletedCount +
\* errorCount is the number of selected paths and errorCount the number of
\* failing ones; every other selected path is gone; with exactly one selected
\* path removed beforehand and no other failure, one failure is reported and
\* all the others are deleted.
C7_DeletionIsolated ==
    /\ pc = "delete" => attempts \o todo = selectedFiles
    /\ DeleteDone =>
        /\ attempts = selectedFiles
        /\ deletedCount + errorCount = Len(selectedFiles)
        /\ errorCount = Cardinality(Failing)
        /\ \A p \in Range(selectedFiles) \ denied : fs[p].kind = "absent"
        /\ \A p \in denied : fs[p].kind # "absent"
        /\ (Cardinality(removedExt) = 1 /\ denied = {}) =>
              (errorCount = 1 /\ deletedCount = Len(selectedFiles) - 1)

C7_Witness ==
    /\ DeleteDone
    /\ Len(selectedFiles) >= 3
    /\ Cardinality(removedExt) = 1
    /\ denied = {}
    /\ selectedFiles[1] \in removedExt

\* rm / unlink are called only inside a confirmed deleteFiles run, and only on
\* selected paths: nothing is presented, confirmed or deleted when the scan
\* found nothing; nothing is asked or deleted when nothing was selected.
C8_State ==
    /\ mutations # <<>> =>
          /\ confirm
          /\ results # <<>>
          /\ Range(mutations) \subseteq Range(selectedFiles)
    /\ Range(selectedFiles) \subseteq Paths(results)
    /\ (pc \in {"select", "deleteFiles", "confirm", "delete"}) => results # <<>>
    /\ (pc \in {"confirm", "delete"}) => selectedFiles # <<>>
    /\ (pc = "delete") => confirm

\* the program changes the filesystem only by removing a selected path, after
\* a "yes"
C8_Step ==
    (fs' # fs /\ removedExt' = removedExt) =>
        /\ pc = "delete"
        /\ confirm
        /\ \E p \in Range(selectedFiles) : fs' = removeTree(fs, p)

\* C8: no filesystem deletion happens without a preceding affirmative
\* confirmation in the same workflow run (C8_State in every state, C8_Step on
\* every step).
C8_ConfirmedDeletionOnly == [](C8_State) /\ [][C8_Step]_vars

C8_Witness ==
    /\ pc = "loop"
    /\ ~confirm
    /\ Len(selectedFiles) >= 2
    /\ console = <<"Operation cancelled.">>
IsPrefix(p, q) == Len(p) <= Len(q) /\ SubSeq(q, 1, Len(p)) = p

\* the files at or below root that are reached through readable directories only
ReachableFiles(f, root) ==
    {p \in U : /\ IsPrefix(root, p)
               /\ f[p].kind = "file"
               /\ \A k \in Len(root)..(Len(p) - 1) : node(f, SubSeq(p, 1, k)).kind = "dir"}

RECURSIVE SumOfSizes(_, _)
SumOfSizes(f, S) ==
    IF S = {} THEN 0
    ELSE LET p == CHOOSE q \in S : TRUE IN f[p].size + SumOfSizes(f, S \ {p})

\* C1: when the call on the root has completed, in whatever order the calls on
\* the entries completed, its value is the sum of the sizes of the files
\* reachable through readable nodes (a node that fails to stat or to enumerate
\* adds 0, its siblings their full size), it is not negative, no exception
\* escaped, and it is the value one sequential evaluation gives.
C1_SizeIsReadableSum ==
    (pc = "size" /\ tasks[target].st = "done") =>
        /\ ~tasks[target].threw
        /\ tasks[target].val = SumOfSizes(fs, ReachableFiles(fs, target))
        /\ tasks[target].val = getFileSizeRecursive(fs, target)
        /\ tasks[target].val >= 0

C1_Witness ==
    /\ pc = "size"
    /\ tasks[target].st = "done"
    /\ tasks[target].val > 0
    /\ \E p \in U : fs[p].kind = "locked" /\ \E name \in entries(fs, p) : fs[join(p, name)].kind = "file"
    /\ \E p \in U : fs[p].kind = "broken" /\ tasks[p].st = "done"
====
